---- MODULE Spec2Model ----
(***************************************************************************)
(* Submit / poll protocol of the askMilo chorus service.                   *)
(*                                                                         *)
(*   submit-chorus-study.js   Job Submission Gateway + In-Flight Registry  *)
(*   chorus-study-status.js   Status Poller                                *)
(*   sessionManager.js        Session Store                                *)
(*   askMilo.js               background turn-execution (session save)     *)
(*                                                                         *)
(* The Session Store is the directory of <name>.json files; every file is  *)
(* modelled by what JSON.parse makes of it.  The gateway, the child        *)
(* process callbacks and the poller run on one Node event loop, so each    *)
(* handler is one atomic action; a spawned askMilo is a separate OS        *)
(* process whose file write is its own action.                             *)
(***************************************************************************)
EXTENDS Integers, Sequences, FiniteSets, TLC

\* ------------------------------------------------------------------ bounds
MaxChildren == 3      \* spawns per gateway lifetime explored
MaxPolledChildren == 1 \* spawns explored together with polls and command-line runs
MaxTurns == 2         \* turns a CLI resume may accumulate in one session
NameAttempts == 2     \* random draws explored in generateSessionName (code: 100)
MaxInstructions == 2  \* instructions an Expansion reply may carry
MaxRuns == 1          \* askMilo processes followed stage by stage, one after another

\* ------------------------------------------------------- names and inputs
\* `${adj}_${noun}` pairs of ADJECTIVES x NOUNS
WordNames == {"amber_arch"}
\* `${adj}_${noun}_${Date.now()}` names of the fallback
StampNames == {"amber_arch_1700"}
SessionNames == WordNames \cup StampNames
\* values.sessionName absent from the request (undefined is falsy, as is "")
NoName == ""
\* requestBody.fileList: missing/empty, or the prompt as its first element
FileLists == {<< >>, <<"p">>}
\* the follow-up prompt of a command-line run
CliPrompts == {"q"}

\* ----------------------------------------------------------- session files
\* a field the object does not have (undefined); usd amounts are counted in
\* units of 0.0001 USD
NoCost == -1
NoTurn == [turnNumber |-> 0, prompt |-> "", totalCost |-> NoCost]
\* fs.existsSync(path) = false
Absent == [kind |-> "absent", status |-> "", error |-> "", turns |-> << >>,
           totalCost |-> NoCost]
\* a file whose content JSON.parse rejects (a write cut short)
Corrupt == [kind |-> "corrupt", status |-> "", error |-> "", turns |-> << >>,
            totalCost |-> NoCost]

existsSync(st, name) == st[name].kind # "absent"

\* loadSession throws when the file is absent or JSON.parse throws
loadSessionThrows(st, name) == st[name].kind # "json"
loadSession(st, name) == st[name]

\* the single-call / chorus turn object written by the session save
thisTurn(turnNumber, prompt, totalCost) ==
    [turnNumber |-> turnNumber, prompt |-> prompt, totalCost |-> totalCost]

createNewSession(turn) ==
    [kind |-> "json", status |-> "", error |-> "", turns |-> <<turn>>,
     totalCost |-> turn.totalCost]

\* turns.reduce((s, t) => s + (t.totalCost ? t.totalCost.usd : 0), 0)
RECURSIVE reduceTotalCost(_)
reduceTotalCost(turns) ==
    IF turns = << >> THEN 0
    ELSE LET t == turns[Len(turns)]
         IN  reduceTotalCost(SubSeq(turns, 1, Len(turns) - 1))
               + (IF t.totalCost = NoCost THEN 0 ELSE t.totalCost)

\* faulty variant: the total of the loaded session is kept
appendTurnToSession_StaleTotal(session, turn) ==
    [session EXCEPT !.turns = Append(session.turns, turn)]

\* session.turns.push(turn) and the recomputed total: every other field of
\* the loaded object is kept
appendTurnToSession(session, turn) ==
    [session EXCEPT !.turns = Append(session.turns, turn),
                    !.totalCost = reduceTotalCost(Append(session.turns, turn))]

\* saveSession writes <sessionName>.json
saveSession(st, name, session) == [st EXCEPT ![name] = session]

\* exit codes: 0, 1 (process.exit(1)), null (killed by a signal), and the
\* negative errno Node reports on 'close' after a failed spawn
NullCode == -1
SpawnErrno == -2
CodeText(code) ==
    CASE code = 0 -> "0"
      [] code = 1 -> "1"
      [] code = NullCode -> "null"
      [] OTHER -> "-2"

StderrCap == 2000
\* stderrBuffer.slice(0, 2000)
Slice(s) == IF Len(s) <= StderrCap THEN s ELSE SubSeq(s, 1, StderrCap)

\* faulty variant: the error record is written with another status word
errorSession_StatusFailed(code, stderrBuffer) ==
    [kind |-> "json", status |-> "failed",
     error |-> "askMilo exited with code " \o CodeText(code) \o ": " \o Slice(stderrBuffer),
     turns |-> << >>, totalCost |-> NoCost]

errorSession(code, stderrBuffer) ==
    [kind |-> "json", status |-> "error",
     error |-> "askMilo exited with code " \o CodeText(code) \o ": " \o Slice(stderrBuffer),
     turns |-> << >>, totalCost |-> NoCost]

\* ------------------------------------------------- one askMilo process
\* mockApi.js reports these usd amounts (units of 0.0001 USD); they stand for
\* what the four kinds of call report
singleCallCost == 1
expandCost == 2
agentCost == 3
synthesisCost == 4

\* no report yet
NoReport ==
    [mode |-> "", totalCostUsd |-> NoCost, perspectives |-> << >>,
     perspectivesCount |-> 0, synthesis |-> FALSE]

\* no askMilo process is being followed
NoRun ==
    [pc |-> "idle", runs |-> 0,
     perspectives |-> 0, summarize |-> FALSE, dryRun |-> FALSE, serialFanOut |-> FALSE,
     sessionName |-> NoName, session |-> Absent, resumed |-> FALSE,
     ran |-> << >>, singleCallCost |-> NoCost,
     instructions |-> << >>, expandCost |-> NoCost,
     agents |-> << >>, results |-> << >>,
     synthesis |-> FALSE, synthesisCost |-> NoCost,
     report |-> NoReport]

\* ------------------------------------------ single-call-tools-direct.mjs
MAX_TOOL_ITERATIONS == 10

\* usd that estimateCost gives for the usage of one model call
UsageUsd == {1, 2}

\* singleCallWithTools has not been called
NoLoop ==
    [pc |-> "idle", iteration |-> 0, totalCost |-> 0, responseText |-> "",
     calls |-> << >>, stopReason |-> ""]

VARIABLES
    store,              \* SESSION_DIR: session name -> file
    inFlightSessions,   \* module-level Set of submit-chorus-study.js
    children,           \* child processes whose handlers can still fire, in spawn order
    spawned,            \* number of spawn() calls made so far
    reply,              \* what the request handler of this step passed to its callback
    run,                \* an askMilo process followed stage by stage
    toolLoop            \* a call of singleCallWithTools followed call by call

vars == <<store, inFlightSessions, children, spawned, reply, run, toolLoop>>

NoReply ==
    [op |-> "none", err |-> "", status |-> "", sessionName |-> "",
     turnNumber |-> 0, completedTurns |-> 0, message |-> "", result |-> NoTurn]

Init ==
    /\ store = [n \in SessionNames |-> Absent]
    /\ inFlightSessions = {}
    /\ children = << >>
    /\ spawned = 0
    /\ reply = NoReply
    /\ run = NoRun
    /\ toolLoop = NoLoop

\* ------------------------------------------------- sessionManager: names
existingSet(st) == {n \in SessionNames : existsSync(st, n)}

\* the retry loop: the first random draw that names no existing file
RECURSIVE firstUnused(_, _, _)
firstUnused(existing, draws, attempt) ==
    IF attempt > Len(draws) THEN NoName
    ELSE IF draws[attempt] \notin existing THEN draws[attempt]
    ELSE firstUnused(existing, draws, attempt + 1)

\* draws: the adj/noun pairs Math.random yields; stamped: the fallback name
generateSessionName(st, draws, stamped) ==
    LET name == firstUnused(existingSet(st), draws, 1)
    IN  IF name # NoName THEN name ELSE stamped

\* ------------------------------------------------ askMilo.js: session save
\* resume logic and the session save of one askMilo run that reached the
\* save: sessionName is values.sessionName, resumeSessionName is
\* values.resumeSession (NoName when not given)
sessionSave(st, sessionName, resumeSessionName, prompt, totalCost) ==
    LET found == resumeSessionName # NoName /\ ~loadSessionThrows(st, resumeSessionName)
        resumeSession == IF found THEN loadSession(st, resumeSessionName) ELSE Absent
        name == IF resumeSessionName # NoName THEN resumeSessionName ELSE sessionName
        turnNumber == IF found THEN Len(resumeSession.turns) + 1 ELSE 1
        turn == thisTurn(turnNumber, prompt, totalCost)
    IN  IF found
        THEN saveSession(st, name, appendTurnToSession(resumeSession, turn))
        ELSE saveSession(st, name, createNewSession(turn))

\* --------------------------------------------- submit-chorus-study.js
MissingPrompt == "Missing prompt: fileList must contain at least one element"
InProgress(sessionName) ==
    "Session \"" \o sessionName \o "\" already has a turn in progress"

\* stage 1: session name and turn number
determineSessionTurn(st, providedSessionName, draws, stamped) ==
    IF providedSessionName # NoName
    THEN [sessionName |-> providedSessionName,
          turnNumber |->
              IF existsSync(st, providedSessionName)
              THEN IF loadSessionThrows(st, providedSessionName)
                   THEN 1
                   ELSE Len(loadSession(st, providedSessionName).turns) + 1
              ELSE 1]
    ELSE [sessionName |-> generateSessionName(st, draws, stamped),
          turnNumber |-> 1]

\* the child_process object spawn() returns, with the closure of its
\* handlers: the process runs, or the spawn failed and 'error' is pending
newChild(sessionName, turnNumber, prompt, spawnFails) ==
    [sessionName |-> sessionName, turnNumber |-> turnNumber, prompt |-> prompt,
     state |-> IF spawnFails THEN "failed" ELSE "running",
     outcome |-> "", code |-> 0, stderrBuffer |-> "", orphan |-> FALSE]

\* faulty variant: stage 2 registers the name without looking it up first
SubmitChorusStudy_NoInFlightCheck(fileList, providedSessionName, draws, stamped, spawnFails) ==
    LET st == determineSessionTurn(store, providedSessionName, draws, stamped)
    IN  IF Len(fileList) = 0
        THEN /\ reply' = [NoReply EXCEPT !.op = "submit", !.err = MissingPrompt]
             /\ UNCHANGED <<store, inFlightSessions, children, spawned, run, toolLoop>>
        ELSE /\ spawned < MaxChildren
             /\ spawned' = spawned + 1
             /\ inFlightSessions' = inFlightSessions \cup {st.sessionName}
             /\ children' = Append(children,
                                   newChild(st.sessionName, st.turnNumber, fileList[1],
                                            spawnFails))
             /\ reply' = [NoReply EXCEPT !.op = "submit", !.status = "accepted",
                                         !.sessionName = st.sessionName,
                                         !.turnNumber = st.turnNumber]
             /\ UNCHANGED <<store, run, toolLoop>>

\* faulty variant: stage 1 does not validate fileList
SubmitChorusStudy_NoValidation(fileList, providedSessionName, draws, stamped, spawnFails) ==
    LET st == determineSessionTurn(store, providedSessionName, draws, stamped)
    IN  IF st.sessionName \in inFlightSessions
        THEN /\ reply' = [NoReply EXCEPT !.op = "submit",
                                         !.err = InProgress(st.sessionName)]
             /\ UNCHANGED <<store, inFlightSessions, children, spawned, run, toolLoop>>
        ELSE /\ spawned < MaxChildren
             /\ spawned' = spawned + 1
             /\ inFlightSessions' = inFlightSessions \cup {st.sessionName}
             /\ children' = Append(children,
                                   newChild(st.sessionName, st.turnNumber,
                                            IF Len(fileList) = 0 THEN "" ELSE fileList[1],
                                            spawnFails))
             /\ reply' = [NoReply EXCEPT !.op = "submit", !.status = "accepted",
                                         !.sessionName = st.sessionName,
                                         !.turnNumber = st.turnNumber]
             /\ UNCHANGED <<store, run, toolLoop>>

\* serviceFunction of the access point: stages 1-3 and the callback
SubmitChorusStudy(fileList, providedSessionName, draws, stamped, spawnFails) ==
    LET st == determineSessionTurn(store, providedSessionName, draws, stamped)
    IN  IF Len(fileList) = 0
        THEN /\ reply' = [NoReply EXCEPT !.op = "submit", !.err = MissingPrompt]
             /\ UNCHANGED <<store, inFlightSessions, children, spawned, run, toolLoop>>
        ELSE IF st.sessionName \in inFlightSessions
        THEN /\ reply' = [NoReply EXCEPT !.op = "submit",
                                         !.err = InProgress(st.sessionName)]
             /\ UNCHANGED <<store, inFlightSessions, children, spawned, run, toolLoop>>
        ELSE /\ spawned < MaxChildren
             /\ spawned' = spawned + 1
             /\ inFlightSessions' = inFlightSessions \cup {st.sessionName}
             /\ children' = Append(children,
                                   newChild(st.sessionName, st.turnNumber, fileList[1],
                                            spawnFails))
             /\ reply' = [NoReply EXCEPT !.op = "submit", !.status = "accepted",
                                         !.sessionName = st.sessionName,
                                         !.turnNumber = st.turnNumber]
             /\ UNCHANGED <<store, run, toolLoop>>

\* the child objects left once child c has emitted its last event
withoutChild(c) == SubSeq(children, 1, c - 1) \o SubSeq(children, c + 1, Len(children))

\* child.on('error'): the process could not be spawned
ChildError(c) ==
    /\ children[c].state = "failed"
    /\ inFlightSessions' = inFlightSessions \ {children[c].sessionName}
    /\ children' = [children EXCEPT ![c].state = "errored", ![c].code = SpawnErrno]
    /\ reply' = NoReply
    /\ UNCHANGED <<store, spawned, run, toolLoop>>

\* faulty variant: the name is removed only on the success branch
ChildClose_DeleteOnSuccess(c) ==
    /\ children[c].state \in {"exited", "errored"}
    /\ inFlightSessions' = IF children[c].code # 0
                           THEN inFlightSessions
                           ELSE inFlightSessions \ {children[c].sessionName}
    /\ store' = IF children[c].code # 0
                THEN [store EXCEPT ![children[c].sessionName] =
                          errorSession(children[c].code, children[c].stderrBuffer)]
                ELSE store
    /\ children' = withoutChild(c)
    /\ reply' = NoReply
    /\ UNCHANGED <<spawned, run, toolLoop>>

\* child.on('close'): after the process exited, or after a failed spawn
ChildClose(c) ==
    /\ children[c].state \in {"exited", "errored"}
    /\ inFlightSessions' = inFlightSessions \ {children[c].sessionName}
    /\ store' = IF children[c].code # 0
                THEN [store EXCEPT ![children[c].sessionName] =
                          errorSession(children[c].code, children[c].stderrBuffer)]
                ELSE store
    /\ children' = withoutChild(c)
    /\ reply' = NoReply
    /\ UNCHANGED <<spawned, run, toolLoop>>

\* the detached processes that outlive the gateway: its handlers are gone
orphans(chs) ==
    [i \in 1 .. Len(SelectSeq(chs, LAMBDA ch : ch.state = "running")) |->
        [SelectSeq(chs, LAMBDA ch : ch.state = "running")[i] EXCEPT !.orphan = TRUE]]

\* faulty variant: the registry is kept across the restart
GatewayRestart_KeepsRegistry ==
    /\ \E c \in DOMAIN children : ~children[c].orphan
    /\ children' = orphans(children)
    /\ reply' = NoReply
    /\ UNCHANGED <<store, inFlightSessions, spawned, run, toolLoop>>

\* the gateway process ends and is started again: the module is loaded
\* anew (an empty Set), the events of the old children are lost, and the
\* detached, unref'd processes that were running run on
GatewayRestart ==
    /\ \E c \in DOMAIN children : ~children[c].orphan
    /\ inFlightSessions' = {}
    /\ children' = orphans(children)
    /\ reply' = NoReply
    /\ UNCHANGED <<store, spawned, run, toolLoop>>

\* ---------------------------------------------------- askMilo.js process
Outcomes == {"saved", "unsaved", "pipelineError", "killedInWrite"}

\* one run of the spawned askMilo, from start to process exit.
\*   saved          pipeline and session save succeed, exit 0
\*   unsaved        early return (no API key) or saveSession throws, exit 0
\*   pipelineError  a stage fails: process.exit(1)
\*   killedInWrite  ended by a signal inside writeFileSync: exit code null
\* The exit of a process whose gateway has gone raises no event.
AskMiloRun(c, outcome) ==
    LET child == children[c]
    IN  /\ child.state = "running"
        /\ store' = CASE outcome = "saved" ->
                           sessionSave(store, child.sessionName, NoName, child.prompt,
                                       singleCallCost)
                      [] outcome = "killedInWrite" ->
                           [store EXCEPT ![child.sessionName] = Corrupt]
                      [] OTHER -> store
        /\ children' =
               IF child.orphan
               THEN withoutChild(c)
               ELSE [children EXCEPT
                        ![c].state = "exited",
                        ![c].outcome = outcome,
                        ![c].code = CASE outcome \in {"saved", "unsaved"} -> 0
                                      [] outcome = "pipelineError" -> 1
                                      [] OTHER -> NullCode,
                        ![c].stderrBuffer = IF outcome = "pipelineError"
                                            THEN "Pipeline error: stage failed"
                                            ELSE ""]
        /\ reply' = NoReply
        /\ UNCHANGED <<inFlightSessions, spawned, run, toolLoop>>

\* askMilo --resumeSession=NAME "prompt" run from the command line
CliResumeSession(name, prompt) ==
    /\ Len(store[name].turns) < MaxTurns
    /\ store' = sessionSave(store, NoName, name, prompt, singleCallCost)
    /\ reply' = NoReply
    /\ UNCHANGED <<inFlightSessions, children, spawned, run, toolLoop>>

\* ------------------------------------------- askMilo.js: the stage pipeline
\* what one Expansion instruction carries on to its result
instruction(i) == [id |-> i, perspective |-> "Mock Perspective " \o ToString(i)]

\* mockExpand, and the shape of a parsed Expansion reply of m instructions
expandInstructions(m) == [i \in 1 .. m |-> instruction(i)]

AgentFailed == "[AGENT FAILED: reason]"
Findings == "findings"

\* runOneAgent's value for an instruction
agentResult(instr) ==
    [id |-> instr.id, perspective |-> instr.perspective,
     findings |-> Findings, usd |-> agentCost]

\* the entry fanOut builds for a rejected promise
failedResult(instr) ==
    [id |-> instr.id, perspective |-> instr.perspective,
     findings |-> AgentFailed, usd |-> 0]

\* faulty variant: the rejected promises are filtered out of the results
fanOutResults_DropRejected(instructions, settled) ==
    SelectSeq([idx \in 1 .. Len(instructions) |->
                  IF settled[idx] = "fulfilled"
                  THEN agentResult(instructions[idx])
                  ELSE failedResult(instructions[idx])],
              LAMBDA r : r.findings # AgentFailed)

\* settled.forEach of fanOut: one entry per instruction, by index
fanOutResults(instructions, settled) ==
    [idx \in 1 .. Len(instructions) |->
        IF settled[idx] = "fulfilled"
        THEN agentResult(instructions[idx])
        ELSE failedResult(instructions[idx])]

\* results.reduce((sum, r) => sum + r.cost.usd, 0)
RECURSIVE reduceUsd(_)
reduceUsd(results) ==
    IF results = << >> THEN 0
    ELSE reduceUsd(SubSeq(results, 1, Len(results) - 1)) + results[Len(results)].usd

\* (cost && cost.usd) || 0 of an optional cost
usdOrZero(cost) == IF cost = NoCost THEN 0 ELSE cost

\* the total of formatChorusJson and of buildTurnFromResults
totalCostUsd(expand, results, synth) ==
    usdOrZero(expand) + reduceUsd(results) + usdOrZero(synth)

\* formatChorusJson: the report of a chorus run
formatChorusJson(results, expand, synthesisText, synth) ==
    [mode |-> "chorus",
     totalCostUsd |-> totalCostUsd(expand, results, synth),
     perspectives |-> results,
     perspectivesCount |-> Len(results),
     synthesis |-> synthesisText]

\* the report of the Collect stage
collectReport(r) ==
    IF r.perspectives = 0
    THEN [NoReport EXCEPT !.mode = "singleCall", !.totalCostUsd = r.singleCallCost]
    ELSE IF r.dryRun
    THEN [NoReport EXCEPT !.mode = "dryRun", !.totalCostUsd = NoCost]
    ELSE formatChorusJson(r.results, r.expandCost, r.synthesis, r.synthesisCost)

\* buildTurnFromResults
buildTurnFromResults(prompt, results, expand, synth, turnNumber) ==
    thisTurn(turnNumber, prompt, totalCostUsd(expand, results, synth))

\* faulty variant: every saved turn is numbered 1
runTurnNumber_AlwaysOne(r) == 1

\* turnNumber of the turn a run saves
runTurnNumber(r) == IF r.resumed THEN Len(r.session.turns) + 1 ELSE 1

\* the turn a finished run saves
runTurn(r) ==
    IF r.perspectives = 0
    THEN thisTurn(runTurnNumber(r), "q", r.singleCallCost)
    ELSE buildTurnFromResults("q", r.results, r.expandCost, r.synthesisCost,
                              runTurnNumber(r))

\* faulty variant: the Synthesize task is pushed whatever summarize is
afterFanOut_AlwaysSynthesize(r) == "synthesize"

\* the task pushed after the Fan-Out task
afterFanOut(r) == IF r.summarize THEN "synthesize" ELSE "collect"

\* --sessionName=NAME or --resumeSession=NAME of the runs followed
RunTargets == {<<n, NoName>> : n \in WordNames} \cup {<<NoName, n>> : n \in WordNames}

\* main(): configuration, resume logic, and the first stage's call is issued
StartRun(perspectives, summarize, dryRun, serialFanOut, sessionName, resumeSessionName) ==
    LET found == resumeSessionName # NoName /\ ~loadSessionThrows(store, resumeSessionName)
        first == IF perspectives = 0 THEN "singleCall" ELSE "expand"
    IN  /\ run.pc \in {"idle", "done", "failed"}
        /\ run.runs < MaxRuns
        /\ run' = [NoRun EXCEPT
               !.pc = first,
               !.runs = run.runs + 1,
               !.perspectives = perspectives,
               !.summarize = summarize,
               !.dryRun = dryRun,
               !.serialFanOut = serialFanOut,
               !.sessionName = IF resumeSessionName # NoName
                               THEN resumeSessionName ELSE sessionName,
               !.session = IF found THEN loadSession(store, resumeSessionName) ELSE Absent,
               !.resumed = found,
               !.ran = <<first>>]
        /\ reply' = NoReply
        /\ UNCHANGED <<store, inFlightSessions, children, spawned, toolLoop>>

\* the pipeRunner callback with err: process.exit(1), nothing is saved
stageFailed(r) == [r EXCEPT !.pc = "failed"]

\* the single call settles
SingleCallSettle(ok) ==
    /\ run.pc = "singleCall"
    /\ ok \/ ~run.dryRun
    /\ run' = IF ok
              THEN [run EXCEPT !.pc = "collect", !.singleCallCost = singleCallCost]
              ELSE stageFailed(run)
    /\ reply' = NoReply
    /\ UNCHANGED <<store, inFlightSessions, children, spawned, toolLoop>>

\* the Expansion call settles with m instructions, or fails (no text, no
\* JSON, zero instructions); mockExpand yields config.perspectives of them
ExpandSettle(ok, m) ==
    /\ run.pc = "expand"
    /\ run.dryRun => ok /\ m = run.perspectives
    /\ run' = IF ok
              THEN [run EXCEPT !.pc = "fanOut",
                               !.instructions = expandInstructions(m),
                               !.expandCost = expandCost]
              ELSE stageFailed(run)
    /\ reply' = NoReply
    /\ UNCHANGED <<store, inFlightSessions, children, spawned, toolLoop>>

\* the Fan-Out task: skipped in dry-run, else instructions.map(runOneAgent)
FanOut ==
    /\ run.pc = "fanOut"
    /\ run' = IF run.dryRun
              THEN [run EXCEPT !.pc = afterFanOut(run)]
              ELSE [run EXCEPT !.pc = "fanOutWait",
                               !.ran = Append(run.ran, "fanOut"),
                               !.agents = [i \in 1 .. Len(run.instructions) |->
                                              "inProgress"]]
    /\ reply' = NoReply
    /\ UNCHANGED <<store, inFlightSessions, children, spawned, toolLoop>>

\* the promise of agent i settles
AgentSettle(i, ok) ==
    /\ run.pc = "fanOutWait"
    /\ i \in 1 .. Len(run.agents)
    /\ run.agents[i] = "inProgress"
    /\ run' = [run EXCEPT !.agents[i] = IF ok THEN "fulfilled" ELSE "rejected"]
    /\ reply' = NoReply
    /\ UNCHANGED <<store, inFlightSessions, children, spawned, toolLoop>>

\* faulty variant: fanOut returns once the first promise has settled
FanOutReturn_FirstSettled ==
    /\ run.pc = "fanOutWait"
    /\ \E i \in 1 .. Len(run.agents) : run.agents[i] # "inProgress"
    /\ run' = [run EXCEPT !.pc = afterFanOut(run),
                          !.results = fanOutResults(run.instructions, run.agents)]
    /\ reply' = NoReply
    /\ UNCHANGED <<store, inFlightSessions, children, spawned, toolLoop>>

\* Promise.allSettled resolves: fanOut returns its results
FanOutReturn ==
    /\ run.pc = "fanOutWait"
    /\ \A i \in 1 .. Len(run.agents) : run.agents[i] # "inProgress"
    /\ run' = [run EXCEPT !.pc = afterFanOut(run),
                          !.results = fanOutResults(run.instructions, run.agents)]
    /\ reply' = NoReply
    /\ UNCHANGED <<store, inFlightSessions, children, spawned, toolLoop>>

\* the Synthesize task: skipped in dry-run, else the synthesis call is issued
Synthesize ==
    /\ run.pc = "synthesize"
    /\ run' = IF run.dryRun
              THEN [run EXCEPT !.pc = "collect"]
              ELSE [run EXCEPT !.pc = "synthWait",
                               !.ran = Append(run.ran, "synthesize")]
    /\ reply' = NoReply
    /\ UNCHANGED <<store, inFlightSessions, children, spawned, toolLoop>>

\* the synthesis call settles
SynthesizeSettle(ok) ==
    /\ run.pc = "synthWait"
    /\ run' = IF ok
              THEN [run EXCEPT !.pc = "collect", !.synthesis = TRUE,
                               !.synthesisCost = synthesisCost]
              ELSE stageFailed(run)
    /\ reply' = NoReply
    /\ UNCHANGED <<store, inFlightSessions, children, spawned, toolLoop>>

\* the Collect task, then the pipeRunner callback: report and session save
Collect(draws, stamped) ==
    /\ run.pc = "collect"
    /\ LET name == IF run.sessionName # NoName THEN run.sessionName
                   ELSE generateSessionName(store, draws, stamped)
           session == IF run.resumed
                      THEN appendTurnToSession(run.session, runTurn(run))
                      ELSE createNewSession(runTurn(run))
       IN  /\ store' = saveSession(store, name, session)
           /\ run' = [run EXCEPT !.pc = "done",
                                 !.ran = Append(run.ran, "collect"),
                                 !.sessionName = name,
                                 !.report = collectReport(run)]
    /\ reply' = NoReply
    /\ UNCHANGED <<inFlightSessions, children, spawned, toolLoop>>

\* --------------------------------------------- sessionManager: rename
MissingSession(oldName) ==
    "Session not found: \"" \o oldName \o "\". Use -listSessions to see available sessions."
AlreadyExists(newName) == "A session named \"" \o newName \o "\" already exists."

\* faulty variant: the target name is not looked up
renameSession_Overwrite(st, oldName, newName) ==
    IF ~existsSync(st, oldName)
    THEN [err |-> MissingSession(oldName), store |-> st]
    ELSE IF loadSessionThrows(st, oldName)
    THEN [err |-> "Unexpected token", store |-> st]
    ELSE [err |-> "",
          store |-> [st EXCEPT ![newName] = st[oldName], ![oldName] = Absent]]

\* renameSession: the error it throws ("" when none) and the files after it
renameSession(st, oldName, newName) ==
    IF ~existsSync(st, oldName)
    THEN [err |-> MissingSession(oldName), store |-> st]
    ELSE IF existsSync(st, newName)
    THEN [err |-> AlreadyExists(newName), store |-> st]
    ELSE IF loadSessionThrows(st, oldName)
    THEN [err |-> "Unexpected token", store |-> st]
    ELSE [err |-> "",
          store |-> [st EXCEPT ![newName] = st[oldName], ![oldName] = Absent]]

\* askMilo -renameSession=OLD -sessionName=NEW
RenameSession(oldName, newName) ==
    LET renamed == renameSession(store, oldName, newName)
    IN  /\ store' = renamed.store
        /\ reply' = [NoReply EXCEPT !.op = "rename", !.err = renamed.err,
                                    !.sessionName = newName]
        /\ UNCHANGED <<inFlightSessions, children, spawned, run, toolLoop>>

\* ------------------------------ single-call-tools-direct.mjs: the loop
FinalText == "final text"
MockText == "[MOCK] Response"
MaxIterationsText ==
    "[MAX TOOL ITERATIONS REACHED (10)] The model continued requesting tool calls beyond the iteration limit."

\* faulty variant: the usd of the latest call replaces the total
accumulateCost_LatestOnly(totalCost, usd) == usd

\* accumulateCost
accumulateCost(totalCost, usd) == totalCost + usd

\* while (iteration < MAX_TOOL_ITERATIONS): the next model call is issued,
\* or the loop is left and the max-iterations finding returned
whileTest(l) ==
    IF l.iteration < MAX_TOOL_ITERATIONS
    THEN [l EXCEPT !.pc = "calling"]
    ELSE [l EXCEPT !.pc = "returned", !.responseText = MaxIterationsText]

\* singleCallWithTools is called: mockSingleCall, or the first model call
SingleCallWithTools(mockApi) ==
    /\ toolLoop.pc = "idle"
    /\ toolLoop' = IF mockApi
                   THEN [toolLoop EXCEPT !.pc = "returned", !.responseText = MockText,
                                         !.totalCost = singleCallCost]
                   ELSE whileTest(toolLoop)
    /\ UNCHANGED <<store, inFlightSessions, children, spawned, reply, run>>

\* stream.finalMessage() resolves: the final text is returned, or the
\* requested tool calls are started
ModelResponds(stopReason, usd) ==
    /\ toolLoop.pc = "calling"
    /\ toolLoop' =
           [toolLoop EXCEPT
               !.totalCost = accumulateCost(toolLoop.totalCost, usd),
               !.calls = Append(toolLoop.calls, usd),
               !.stopReason = stopReason,
               !.pc = IF stopReason # "tool_use" THEN "returned" ELSE "tools",
               !.responseText = IF stopReason # "tool_use" THEN FinalText ELSE ""]
    /\ UNCHANGED <<store, inFlightSessions, children, spawned, reply, run>>

\* stream.finalMessage() rejects: singleCallWithTools throws
ModelCallFails ==
    /\ toolLoop.pc = "calling"
    /\ toolLoop' = [toolLoop EXCEPT !.pc = "threw"]
    /\ UNCHANGED <<store, inFlightSessions, children, spawned, reply, run>>

\* the tool calls have resolved: their results are pushed, iteration++
ToolResults ==
    /\ toolLoop.pc = "tools"
    /\ toolLoop' = whileTest([toolLoop EXCEPT !.iteration = toolLoop.iteration + 1])
    /\ UNCHANGED <<store, inFlightSessions, children, spawned, reply, run>>

\* ------------------------------------------------- ask-the-chorus.js
\* values of a request body: each NAME, or NoName when the key is absent
RequestValues ==
    [sessionName : SessionNames \cup {NoName},
     resumeSession : SessionNames \cup {NoName},
     deleteSession : SessionNames \cup {NoName},
     renameSession : SessionNames \cup {NoName}]

\* deleteSession: the files after it (it throws when the file is missing)
deleteSession(st, name) ==
    IF existsSync(st, name) THEN [st EXCEPT ![name] = Absent] ELSE st

\* askMilo started with {switches, values, fileList} on stdin, from start to
\* exit: the session files it leaves. The session commands return before
\* the pipeline; generated is the name generateSessionName would return
askMiloStdin(st, noSave, values, prompt, generated) ==
    IF values.deleteSession # NoName
    THEN deleteSession(st, values.deleteSession)
    ELSE IF values.renameSession # NoName
    THEN IF values.sessionName = NoName THEN st
         ELSE renameSession(st, values.renameSession, values.sessionName).store
    ELSE IF noSave THEN st
    ELSE sessionSave(st,
                     IF values.sessionName # NoName THEN values.sessionName
                     ELSE generated,
                     values.resumeSession, prompt, singleCallCost)

Unparseable == "askMilo returned unparseable output"
AskMiloFailed == "askMilo failed: Pipeline error: stage failed"

\* serviceFunction of the blocking access point: stage 1 forces json and
\* noSave, stage 2 runs askMilo to its exit and parses its output
AskTheChorus(fileList, values, pipelineFails, draws, stamped) ==
    IF Len(fileList) = 0
    THEN /\ reply' = [NoReply EXCEPT !.op = "askTheChorus", !.err = MissingPrompt]
         /\ UNCHANGED <<store, inFlightSessions, children, spawned, run, toolLoop>>
    ELSE /\ store' = askMiloStdin(store, TRUE, values, fileList[1],
                                  generateSessionName(store, draws, stamped))
         /\ reply' = [NoReply EXCEPT
                !.op = "askTheChorus",
                !.err = IF values.deleteSession # NoName \/ values.renameSession # NoName
                        THEN Unparseable
                        ELSE IF pipelineFails THEN AskMiloFailed ELSE "",
                !.status = IF values.deleteSession = NoName
                              /\ values.renameSession = NoName /\ ~pipelineFails
                           THEN "answered" ELSE ""]
         /\ UNCHANGED <<inFlightSessions, children, spawned, run, toolLoop>>

\* --------------------------------------------- chorus-study-status.js
MissingSessionName == "Missing required parameter: sessionName"
InvalidTurnNumber == "Missing or invalid parameter: turnNumber (must be >= 1)"

\* faulty variant: turns.length > turnNumber
statusResult_OffByOne(st, sessionName, turnNumber) ==
    IF ~existsSync(st, sessionName)
    THEN [NoReply EXCEPT !.op = "poll", !.status = "running",
                         !.sessionName = sessionName, !.turnNumber = turnNumber,
                         !.completedTurns = 0]
    ELSE IF st[sessionName].kind = "corrupt"
    THEN [NoReply EXCEPT !.op = "poll", !.status = "error",
                         !.sessionName = sessionName,
                         !.message = "corrupt session file"]
    ELSE IF st[sessionName].status = "error"
    THEN [NoReply EXCEPT !.op = "poll", !.status = "error",
                         !.sessionName = sessionName,
                         !.message = IF st[sessionName].error # ""
                                     THEN st[sessionName].error
                                     ELSE "unknown error"]
    ELSE IF Len(st[sessionName].turns) > turnNumber
    THEN [NoReply EXCEPT !.op = "poll", !.status = "complete",
                         !.sessionName = sessionName, !.turnNumber = turnNumber,
                         !.result = st[sessionName].turns[turnNumber]]
    ELSE [NoReply EXCEPT !.op = "poll", !.status = "running",
                         !.sessionName = sessionName, !.turnNumber = turnNumber,
                         !.completedTurns = Len(st[sessionName].turns)]

\* faulty variant: the turns are compared before the error marker is looked at
statusResult_TurnsFirst(st, sessionName, turnNumber) ==
    IF ~existsSync(st, sessionName)
    THEN [NoReply EXCEPT !.op = "poll", !.status = "running",
                         !.sessionName = sessionName, !.turnNumber = turnNumber,
                         !.completedTurns = 0]
    ELSE IF st[sessionName].kind = "corrupt"
    THEN [NoReply EXCEPT !.op = "poll", !.status = "error",
                         !.sessionName = sessionName,
                         !.message = "corrupt session file"]
    ELSE IF Len(st[sessionName].turns) >= turnNumber
    THEN [NoReply EXCEPT !.op = "poll", !.status = "complete",
                         !.sessionName = sessionName, !.turnNumber = turnNumber,
                         !.result = st[sessionName].turns[turnNumber]]
    ELSE IF st[sessionName].status = "error"
    THEN [NoReply EXCEPT !.op = "poll", !.status = "error",
                         !.sessionName = sessionName,
                         !.message = IF st[sessionName].error # ""
                                     THEN st[sessionName].error
                                     ELSE "unknown error"]
    ELSE [NoReply EXCEPT !.op = "poll", !.status = "running",
                         !.sessionName = sessionName, !.turnNumber = turnNumber,
                         !.completedTurns = Len(st[sessionName].turns)]

\* stage 2: the status derived from the session file
statusResult(st, sessionName, turnNumber) ==
    IF ~existsSync(st, sessionName)
    THEN [NoReply EXCEPT !.op = "poll", !.status = "running",
                         !.sessionName = sessionName, !.turnNumber = turnNumber,
                         !.completedTurns = 0]
    ELSE IF st[sessionName].kind = "corrupt"
    THEN [NoReply EXCEPT !.op = "poll", !.status = "error",
                         !.sessionName = sessionName,
                         !.message = "corrupt session file"]
    ELSE IF st[sessionName].status = "error"
    THEN [NoReply EXCEPT !.op = "poll", !.status = "error",
                         !.sessionName = sessionName,
                         !.message = IF st[sessionName].error # ""
                                     THEN st[sessionName].error
                                     ELSE "unknown error"]
    ELSE IF Len(st[sessionName].turns) >= turnNumber
    THEN [NoReply EXCEPT !.op = "poll", !.status = "complete",
                         !.sessionName = sessionName, !.turnNumber = turnNumber,
                         !.result = st[sessionName].turns[turnNumber]]
    ELSE [NoReply EXCEPT !.op = "poll", !.status = "running",
                         !.sessionName = sessionName, !.turnNumber = turnNumber,
                         !.completedTurns = Len(st[sessionName].turns)]

\* serviceFunction of the status access point: stages 1-2 and the callback
chorusStudyStatus(st, sessionName, turnNumber) ==
    IF sessionName = NoName
    THEN [NoReply EXCEPT !.op = "poll", !.err = MissingSessionName]
    ELSE IF turnNumber < 1
    THEN [NoReply EXCEPT !.op = "poll", !.err = InvalidTurnNumber]
    ELSE statusResult(st, sessionName, turnNumber)

PollTurns == 0 .. (MaxTurns + 1)

\* faulty variant: a poll that finds the turn settled clears the registry entry
ChorusStudyStatus_ClearsRegistry(sessionName, turnNumber) ==
    /\ reply' = chorusStudyStatus(store, sessionName, turnNumber)
    /\ inFlightSessions' = IF reply'.status \in {"complete", "error"}
                           THEN inFlightSessions \ {sessionName}
                           ELSE inFlightSessions
    /\ UNCHANGED <<store, children, spawned, run, toolLoop>>

ChorusStudyStatus(sessionName, turnNumber) ==
    /\ reply' = chorusStudyStatus(store, sessionName, turnNumber)
    /\ UNCHANGED <<store, inFlightSessions, children, spawned, run, toolLoop>>

\* ------------------------------------------------------------ behaviours
Submit ==
    \E fileList \in FileLists, providedSessionName \in SessionNames \cup {NoName},
       draws \in [1 .. NameAttempts -> WordNames], stamped \in StampNames,
       spawnFails \in BOOLEAN :
         SubmitChorusStudy(fileList, providedSessionName, draws, stamped, spawnFails)

\* the whole service: gateway, child processes, command-line runs and polls
Next ==
    \/ Submit /\ spawned' <= MaxPolledChildren
    \/ \E c \in DOMAIN children : ChildError(c)
    \/ \E c \in DOMAIN children : ChildClose(c)
    \/ \E c \in DOMAIN children, outcome \in Outcomes : AskMiloRun(c, outcome)
    \/ \E name \in SessionNames, prompt \in CliPrompts : CliResumeSession(name, prompt)
    \/ \E sessionName \in SessionNames \cup {NoName}, turnNumber \in PollTurns :
            ChorusStudyStatus(sessionName, turnNumber)

Spec == Init /\ [][Next]_vars

\* the gateway and its child processes alone, with more spawns
NextGateway ==
    \/ Submit
    \/ \E c \in DOMAIN children : ChildError(c)
    \/ \E c \in DOMAIN children : ChildClose(c)
    \/ \E c \in DOMAIN children, outcome \in Outcomes : AskMiloRun(c, outcome)

SpecGateway == Init /\ [][NextGateway]_vars

\* the gateway, its child processes, and restarts of the gateway
NextRestart ==
    \/ NextGateway
    \/ GatewayRestart

SpecRestart == Init /\ [][NextRestart]_vars

\* askMilo run from the command line, stage by stage, and session renames
NextAskMilo ==
    \/ \E perspectives \in 0 .. MaxInstructions, summarize \in BOOLEAN,
          dryRun \in BOOLEAN, serialFanOut \in BOOLEAN, target \in RunTargets :
          StartRun(perspectives, summarize, dryRun, serialFanOut,
                   target[1], target[2])
    \/ \E ok \in BOOLEAN : SingleCallSettle(ok)
    \/ \E ok \in BOOLEAN, m \in 1 .. MaxInstructions : ExpandSettle(ok, m)
    \/ FanOut
    \/ \E i \in 1 .. MaxInstructions, ok \in BOOLEAN : AgentSettle(i, ok)
    \/ FanOutReturn
    \/ Synthesize
    \/ \E ok \in BOOLEAN : SynthesizeSettle(ok)
    \/ \E draws \in [1 .. NameAttempts -> WordNames], stamped \in StampNames :
          Collect(draws, stamped)
    \/ \E oldName \in SessionNames, newName \in SessionNames :
          RenameSession(oldName, newName)

\* the session directory an askMilo process may find: empty, or one session
\* of one turn left by an earlier single call or by an earlier dry run
EarlierSessions ==
    {[n \in SessionNames |-> Absent]} \cup
    {[n \in SessionNames |->
         IF n = name THEN createNewSession(thisTurn(1, "q", usd)) ELSE Absent] :
       name \in WordNames, usd \in {singleCallCost, expandCost}}

InitAskMilo ==
    /\ store \in EarlierSessions
    /\ inFlightSessions = {}
    /\ children = << >>
    /\ spawned = 0
    /\ reply = NoReply
    /\ run = NoRun
    /\ toolLoop = NoLoop

SpecAskMilo == InitAskMilo /\ [][NextAskMilo]_vars

\* one call of singleCallWithTools
NextToolLoop ==
    \/ \E mockApi \in BOOLEAN : SingleCallWithTools(mockApi)
    \/ \E stopReason \in {"tool_use", "end_turn", "max_tokens"}, usd \in UsageUsd :
          ModelResponds(stopReason, usd)
    \/ ModelCallFails
    \/ ToolResults

\* every awaited call settles
SpecToolLoop == Init /\ [][NextToolLoop]_vars /\ WF_vars(NextToolLoop)

\* the blocking endpoint, next to command-line runs and polls
NextAskTheChorus ==
    \/ \E fileList \in FileLists, values \in RequestValues, pipelineFails \in BOOLEAN,
          draws \in [1 .. NameAttempts -> WordNames], stamped \in StampNames :
          AskTheChorus(fileList, values, pipelineFails, draws, stamped)
    \/ \E name \in SessionNames, prompt \in CliPrompts : CliResumeSession(name, prompt)
    \/ \E sessionName \in SessionNames \cup {NoName}, turnNumber \in PollTurns :
          ChorusStudyStatus(sessionName, turnNumber)

SpecAskTheChorus == Init /\ [][NextAskTheChorus]_vars

\* ================================================================ claims

\* turns a poller would count as completed for a session name
CompletedTurns(st, name) == IF st[name].kind = "json" THEN Len(st[name].turns) ELSE 0

\* a step in which the gateway accepted a submission
AcceptStep == spawned' = spawned + 1

\* C1: for every accepted submission the acknowledged turnNumber equals the
\* number of completed turns persisted for that session plus 1 (1 when the
\* session has no persisted record).
C1_AckTurnIsCountPlusOne ==
    [][AcceptStep =>
          reply'.turnNumber = CompletedTurns(store, reply'.sessionName) + 1]_vars

\* C2: a submission for a session name that is in the In-Flight Registry is
\* rejected with the duplicate-in-flight error; no child is spawned, the
\* registry, the store and the children already running are left as they were.
C2_DuplicateRejected ==
    [][\A fileList \in FileLists \ {<< >>}, name \in SessionNames,
          draws \in [1 .. NameAttempts -> WordNames], stamped \in StampNames,
          spawnFails \in BOOLEAN :
            (name \in inFlightSessions
               /\ SubmitChorusStudy(fileList, name, draws, stamped, spawnFails))
            => /\ reply'.err = InProgress(name)
               /\ reply'.status # "accepted"
               /\ UNCHANGED <<store, inFlightSessions, children>>]_vars

\* a rejected duplicate while the first submission's process is still running
C2_Witness ==
    \E c \in DOMAIN children :
        /\ children[c].state = "running"
        /\ children[c].sessionName \in inFlightSessions
        /\ reply.op = "submit"
        /\ reply.err = InProgress(children[c].sessionName)

Running(name) ==
    {c \in DOMAIN children :
        children[c].sessionName = name /\ children[c].state = "running"}

\* C3: at most one background turn-execution launched by the gateway is
\* running for any session name at any time.
C3_OneRunningPerSession ==
    \A name \in SessionNames : Cardinality(Running(name)) <= 1

\* the step in which the askMilo process of child c saves its turn and exits
SavedStep(c) ==
    /\ c \in DOMAIN children
    /\ children[c].state = "running"
    /\ children'[c].state = "exited"
    /\ children'[c].outcome = "saved"

\* C4: a submission acknowledged with turn k+1 (the session held k completed
\* turns) whose run succeeds leaves k+1 turns: the k earlier ones unchanged
\* and in order, then the new turn with turnNumber k+1.
C4_SuccessfulRunAppends ==
    [][\A c \in DOMAIN children :
          SavedStep(c) =>
            LET name == children[c].sessionName
                k == children[c].turnNumber - 1
            IN  /\ Len(store'[name].turns) = k + 1
                /\ SubSeq(store'[name].turns, 1, k) = SubSeq(store[name].turns, 1, k)
                /\ store'[name].turns[k + 1].turnNumber = k + 1]_vars

\* the step in which the gateway handles 'close' of child c
CloseStep(c) ==
    /\ c \in DOMAIN children
    /\ children[c].state \in {"exited", "errored"}
    /\ children' = withoutChild(c)

IsErrorView(view) == view.err = "" /\ view.status = "error" /\ view.message # ""

TurnsView(view, file, turnNumber) ==
    /\ view.err = ""
    /\ IF turnNumber <= Len(file.turns)
       THEN view.status = "complete" /\ view.result = file.turns[turnNumber]
       ELSE view.status = "running" /\ view.completedTurns = Len(file.turns)

\* C6 as stated: for every persisted session with k turns a poll of
\* turnNumber <= k is complete with turns[turnNumber-1], a poll of
\* turnNumber > k is running with completedTurns = k.
C6_AnyRecord ==
    \A name \in SessionNames, turnNumber \in 1 .. (MaxTurns + 1) :
        store[name].kind = "json"
        => TurnsView(chorusStudyStatus(store, name, turnNumber), store[name], turnNumber)

\* C6 amended: the same, for persisted sessions that carry no error marker.
C6_RecordWithoutErrorMarker ==
    \A name \in SessionNames, turnNumber \in 1 .. (MaxTurns + 1) :
        (store[name].kind = "json" /\ store[name].status # "error")
        => TurnsView(chorusStudyStatus(store, name, turnNumber), store[name], turnNumber)

\* the last poll returned the second of two stored turns
C6_Witness ==
    /\ reply.op = "poll"
    /\ reply.status = "complete"
    /\ reply.turnNumber = 2
    /\ store[reply.sessionName].status # "error"
    /\ Len(store[reply.sessionName].turns) = 2
    /\ reply.result = store[reply.sessionName].turns[2]

\* C7: the poller's result is the ordered case analysis: absent, then
\* unparseable, then error marker (even with turns), then the comparison.
C7_Precedence ==
    \A name \in SessionNames, turnNumber \in 1 .. (MaxTurns + 1) :
        LET view == chorusStudyStatus(store, name, turnNumber)
            file == store[name]
        IN  /\ view.err = ""
            /\ CASE file.kind = "absent" ->
                      view.status = "running" /\ view.completedTurns = 0
                 [] file.kind = "corrupt" ->
                      view.status = "error" /\ view.message = "corrupt session file"
                 [] file.kind = "json" /\ file.status = "error" ->
                      view.status = "error" /\ view.message = file.error
                 [] OTHER -> TurnsView(view, file, turnNumber)

\* the last poll returned error for a record that has the marker and a turn
C7_Witness ==
    /\ reply.op = "poll"
    /\ reply.status = "error"
    /\ store[reply.sessionName].status = "error"
    /\ Len(store[reply.sessionName].turns) >= 1
    /\ reply.message = store[reply.sessionName].error

\* a step in which the poller answered
PollStep == reply'.op = "poll"

\* C8: a poll leaves the Session Store and the In-Flight Registry (and the
\* child processes) unchanged, and its answer is the one the persisted state
\* determines for the polled (sessionName, turnNumber).
C8_PollIsPure ==
    [][PollStep =>
          /\ UNCHANGED <<store, inFlightSessions, children>>
          /\ reply'.err = "" =>
                \E turnNumber \in PollTurns :
                    reply' = chorusStudyStatus(store', reply'.sessionName, turnNumber)]_vars

\* a poll answered while a session was in flight and a file was stored
C8_Witness ==
    /\ reply.op = "poll"
    /\ reply.status = "running"
    /\ reply.sessionName \in inFlightSessions
    /\ \E name \in SessionNames : existsSync(store, name)

\* C9: a submission with a missing or empty prompt list is rejected with the
\* validation error; nothing is registered, spawned or stored.
C9_EmptyPromptRejected ==
    [][\A providedSessionName \in SessionNames \cup {NoName},
          draws \in [1 .. NameAttempts -> WordNames], stamped \in StampNames,
          spawnFails \in BOOLEAN :
            SubmitChorusStudy(<< >>, providedSessionName, draws, stamped, spawnFails)
            => /\ reply'.err = MissingPrompt
               /\ reply'.status # "accepted"
               /\ UNCHANGED <<store, inFlightSessions, children>>]_vars

\* the validation error was returned
C9_Witness ==
    /\ reply.op = "submit"
    /\ reply.err = MissingPrompt
    /\ reply.status # "accepted"

\* C10: the 'close' of every child, exit code 0 or not, removes its session
\* name from the registry, and a valid submission for a name that is not
\* registered is accepted.
C10_CloseDeregisters ==
    [][/\ \A c \in DOMAIN children :
             CloseStep(c) => children[c].sessionName \notin inFlightSessions'
       /\ \A fileList \in FileLists \ {<< >>}, name \in SessionNames,
             draws \in [1 .. NameAttempts -> WordNames], stamped \in StampNames,
             spawnFails \in BOOLEAN :
               (name \notin inFlightSessions
                  /\ SubmitChorusStudy(fileList, name, draws, stamped, spawnFails))
               => /\ reply'.status = "accepted"
                  /\ reply'.sessionName = name
                  /\ name \in inFlightSessions']_vars

\* a process exited non-zero, was closed (its error record is stored), and
\* the same name was accepted again: its new process is the only one running
C10_Witness ==
    \E name \in SessionNames :
        /\ store[name] = errorSession(1, "Pipeline error: stage failed")
        /\ name \in inFlightSessions
        /\ Cardinality(Running(name)) = 1
        /\ \A c \in DOMAIN children : children[c].state = "running"

\* C11: when a stage of a run fails, the session's persisted turns after the
\* run has ended (process exit and the gateway's termination handler) are
\* exactly those that existed before it.
C11_FailedRunKeepsTurns ==
    [][\A c \in DOMAIN children :
          /\ (children[c].state = "running" /\ c \in DOMAIN children'
                /\ children'[c].outcome = "pipelineError")
             => store' = store
          /\ (CloseStep(c) /\ children[c].outcome = "pipelineError")
             => store'[children[c].sessionName].turns
                    = store[children[c].sessionName].turns]_vars

\* ------------------------------------------------ claims on the pipeline
\* the call of a stage has been issued in the run followed
Started(stage) == \E k \in DOMAIN run.ran : run.ran[k] = stage

AllSettled == \A i \in DOMAIN run.agents : run.agents[i] # "inProgress"

\* C12: Expansion has completed before any Fan-Out participant starts; all
\* participants have settled before Synthesis starts; Collect runs only
\* after every stage that ran has finished.
C12_StageOrder ==
    /\ run.agents # << >>
       => /\ run.expandCost # NoCost
          /\ Len(run.agents) = Len(run.instructions)
    /\ Started("synthesize")
       => /\ AllSettled
          /\ Len(run.results) = Len(run.instructions)
    /\ Started("collect")
       => /\ AllSettled
          /\ Started("singleCall") => run.singleCallCost # NoCost
          /\ Started("expand") => run.expandCost # NoCost
          /\ Started("fanOut") => Len(run.results) = Len(run.instructions)
          /\ Started("synthesize") => run.synthesis

\* a run of two participants went through all four stages
C12_Witness ==
    /\ run.pc = "done"
    /\ run.ran = <<"expand", "fanOut", "synthesize", "collect">>
    /\ Len(run.agents) = 2

\* the step in which fanOut hands its value, or an error, to the pipeline
FanOutEnds == run.pc = "fanOutWait" /\ run'.pc # "fanOutWait"

InProgressCalls == {i \in DOMAIN run.agents : run.agents[i] = "inProgress"}

\* C14: with serialFanOut set, at most one participant call is in progress
\* at any time (call i+1 is issued only after call i has settled).
C14_SerialOneAtATime ==
    run.serialFanOut => Cardinality(InProgressCalls) <= 1

\* ------------------------------------------------ claims on the sessions
\* C15: a rename to a name that already exists is rejected and leaves every
\* session as it was; a rename that succeeds leaves no record under the old
\* name and one under the new name, with the turns the old one had.
C15_RenameKeepsSessions ==
    [][reply'.op = "rename"
       => \A oldName \in SessionNames :
             RenameSession(oldName, reply'.sessionName)
             => LET newName == reply'.sessionName
                IN  /\ existsSync(store, newName)
                       => /\ reply'.err # ""
                          /\ store' = store
                    /\ reply'.err = ""
                       => /\ existsSync(store, oldName)
                          /\ ~existsSync(store', oldName)
                          /\ existsSync(store', newName)
                          /\ store'[newName].turns = store[oldName].turns
                          /\ \A n \in SessionNames \ {oldName, newName} :
                                store'[n] = store[n]]_vars

\* a session was renamed to amber_arch_1700, and a later rename of another
\* session to that name has just been rejected
C15_Witness ==
    /\ reply.op = "rename"
    /\ reply.err = AlreadyExists("amber_arch_1700")
    /\ store["amber_arch"].kind = "json"
    /\ store["amber_arch_1700"].kind = "json"
    /\ Len(store["amber_arch_1700"].turns) > 0

\* the usd of the turns of a session, added up
RECURSIVE SumOfTurns(_)
SumOfTurns(turns) ==
    IF turns = << >> THEN 0
    ELSE turns[1].totalCost + SumOfTurns(Tail(turns))

\* C16: the stored total cost (usd) of a session that has turns equals the
\* sum of the total costs of its turns, after its creation and after every
\* append.
C16_TotalIsSumOfTurns ==
    \A name \in SessionNames :
        (store[name].kind = "json" /\ store[name].turns # << >>)
        => store[name].totalCost = SumOfTurns(store[name].turns)

\* a chorus turn of two fulfilled participants and a synthesis was appended
\* to a session created by a single call
C16_Witness ==
    /\ Len(store["amber_arch"].turns) = 2
    /\ store["amber_arch"].turns[1].totalCost = singleCallCost
    /\ store["amber_arch"].turns[2].totalCost
           = expandCost + 2 * agentCost + synthesisCost
    /\ store["amber_arch"].totalCost
           = singleCallCost + expandCost + 2 * agentCost + synthesisCost

\* C17: in every session the turn at position i (counted from 1) carries
\* turnNumber i: the numbers are contiguous and start at 1.
C17_TurnNumbersContiguous ==
    \A name \in SessionNames :
        \A i \in 1 .. Len(store[name].turns) :
            store[name].turns[i].turnNumber = i

\* a resumed run has just appended the second turn of a session
C17_Witness ==
    /\ run.pc = "done"
    /\ run.resumed
    /\ Len(store[run.sessionName].turns) = 2
    /\ store[run.sessionName].turns[2].turnNumber = 2

\* C18: whatever the random draws and the timestamp, the name
\* generateSessionName returns is not the name of a session that exists in
\* the store at the time of the call, the timestamp fallback included.
C18_GeneratedNameIsNew ==
    \A draws \in [1 .. NameAttempts -> WordNames], stamped \in StampNames :
        generateSessionName(store, draws, stamped) \notin existingSet(store)

\* a chorus run that was no dry run has reported
ChorusReported == run.pc = "done" /\ run.perspectives > 0 /\ ~run.dryRun

FulfilledCalls == {i \in DOMAIN run.agents : run.agents[i] = "fulfilled"}

\* the reported total is the expansion cost, plus the costs of the
\* participants (a failed one costs nothing), plus the synthesis cost when
\* Synthesis ran
ReportedTotalIsSum ==
    ChorusReported
    => run.report.totalCostUsd
           = expandCost + Cardinality(FulfilledCalls) * agentCost
               + (IF Started("synthesize") THEN synthesisCost ELSE 0)

\* with summarize off the report has as many perspective entries as
\* perspectives were asked for, and no synthesis field
EntriesAsRequested ==
    (ChorusReported /\ ~run.summarize)
    => /\ Len(run.report.perspectives) = run.perspectives
       /\ run.report.perspectivesCount = run.perspectives
       /\ ~run.report.synthesis

\* C19: the reported total cost of a chorus run is the expansion cost plus
\* the sum of the participant costs plus the synthesis cost when Synthesis
\* ran; with summarize off and N perspectives the result has exactly N
\* perspective entries and no synthesis field.
C19_ReportedCostAndEntries == ReportedTotalIsSum /\ EntriesAsRequested

\* the stages whose calls a run issues, by its configuration
StagePlan(perspectives, summarize, dryRun) ==
    IF perspectives = 0 THEN <<"singleCall", "collect">>
    ELSE IF dryRun THEN <<"expand", "collect">>
    ELSE IF summarize THEN <<"expand", "fanOut", "synthesize", "collect">>
    ELSE <<"expand", "fanOut", "collect">>

IsPrefix(s, t) == Len(s) <= Len(t) /\ s = SubSeq(t, 1, Len(s))

\* C20: the stages a run executes are fixed at its start by (perspectives,
\* summarize, dryRun): with 0 perspectives the single call and Collect, even
\* if summarize is set; otherwise Expansion, Fan-Out, Synthesis only if
\* summarize is set, and Collect; in a dry run neither Fan-Out nor Synthesis
\* issues a call after Expansion.
C20_StagesFollowPlan ==
    LET plan == StagePlan(run.perspectives, run.summarize, run.dryRun)
    IN  /\ run.pc # "idle" => IsPrefix(run.ran, plan)
        /\ run.pc = "done" => run.ran = plan
        /\ run.dryRun => /\ run.agents = << >>
                         /\ run.results = << >>
                         /\ ~run.synthesis

\* a dry run with summarize set and two perspectives has finished, having
\* issued the Expansion call only
C20_Witness ==
    /\ run.pc = "done"
    /\ run.dryRun
    /\ run.summarize
    /\ run.perspectives = 2
    /\ Len(run.instructions) = 2
    /\ run.ran = <<"expand", "collect">>

\* ------------------------------------------ claims on the stages' contracts
\* the step in which the Expansion stage succeeds
ExpandSucceeds == run.pc = "expand" /\ run'.pc = "fanOut"

\* C21: whenever the Expansion stage succeeds for perspective count N it
\* yields exactly N instructions, with ids 1..N (every other outcome of the
\* external call fails the stage).
C21_ExpansionYieldsN ==
    [][ExpandSucceeds
       => /\ Len(run'.instructions) = run.perspectives
          /\ \A i \in 1 .. Len(run'.instructions) :
                run'.instructions[i].id = i]_vars

\* C23: the synthesis call is issued only when summarize was requested, the
\* run is a chorus run, and at least one participant's result is usable
\* (not a failure marker).
C23_SynthesisNeedsUsableResult ==
    Started("synthesize")
    => /\ run.summarize
       /\ run.perspectives > 0
       /\ \E i \in DOMAIN run.results : run.results[i].findings # AgentFailed

\* ------------------------------------------ claims on the turn life cycle
\* C25: once a poll of (sessionName, turnNumber) returns complete with a
\* turn, every later poll of that pair returns complete with the same turn,
\* whatever submissions, runs and crashes happen on the session in between.
C25_CompleteIsStable ==
    [][\A name \in SessionNames, turnNumber \in 1 .. (MaxTurns + 1) :
          LET before == chorusStudyStatus(store, name, turnNumber)
              after == chorusStudyStatus(store', name, turnNumber)
          IN  before.status = "complete"
              => /\ after.status = "complete"
                 /\ after.result = before.result]_vars

\* C26: while the background process of an accepted submission is running,
\* a poll of the acknowledged (sessionName, turnNumber) returns running,
\* also when the session holds the error record of an earlier failed turn.
C26_RunningWhileInFlight ==
    \A c \in DOMAIN children :
        children[c].state = "running"
        => chorusStudyStatus(store, children[c].sessionName,
                             children[c].turnNumber).status = "running"

\* C27: once the background process of an accepted submission has
\* terminated, with whatever exit code, and the gateway has handled its
\* termination, a poll of the acknowledged (sessionName, turnNumber)
\* returns complete or error, not running.
C27_ResolvedAfterTermination ==
    [][\A c \in DOMAIN children :
          CloseStep(c)
          => chorusStudyStatus(store', children[c].sessionName,
                               children[c].turnNumber).status
                 \in {"complete", "error"}]_vars

\* the children launched for a name whose termination (or failed spawn) the
\* gateway has not been told of yet
Launched(name) ==
    {c \in DOMAIN children :
        /\ children[c].sessionName = name
        /\ children[c].state \in {"running", "exited", "failed"}}

\* C28: a session name is in the In-Flight Registry if and only if a
\* background process launched for that name has not terminated yet; the
\* late termination or spawn-error event of an earlier process does not
\* remove the registration of a later submission for the same name.
C28_RegistryIffLaunched ==
    \A name \in SessionNames :
        name \in inFlightSessions <=> Launched(name) # {}

\* C29: a submission with a prompt and without a session name is always
\* accepted: the generated name is not in flight, so the request is never
\* rejected as a duplicate.
C29_UnnamedSubmissionAccepted ==
    [][reply'.op = "submit"
       => \A draws \in [1 .. NameAttempts -> WordNames], stamped \in StampNames,
             spawnFails \in BOOLEAN :
             SubmitChorusStudy(<<"p">>, NoName, draws, stamped, spawnFails)
             => reply'.status = "accepted"]_vars

\* C30: a request on the blocking askTheChorus path, whatever its body and
\* its outcome, leaves the session files and the In-Flight Registry as they
\* were.
C30_BlockingPathWritesNothing ==
    [][reply'.op = "askTheChorus"
       => /\ store' = store
          /\ inFlightSessions' = inFlightSessions]_vars

\* ------------------------------------------------ claims on the registry
\* a process launched for the name by an earlier gateway is still running
OrphanRunning(name) ==
    \E c \in DOMAIN children : children[c].sessionName = name /\ children[c].orphan

\* C24: a restart of the gateway while turns are executing leaves the
\* In-Flight Registry empty and the processes running; a submission for a
\* session whose turn is still executing is then accepted, and two
\* executions that write the session's file run at the same time.
C24_RestartForgetsInFlight ==
    [][/\ GatewayRestart
          => /\ inFlightSessions' = {}
             /\ \A c \in DOMAIN children :
                   children[c].state = "running"
                   => \E d \in DOMAIN children' :
                         /\ children'[d].sessionName = children[c].sessionName
                         /\ children'[d].state = "running"
       /\ \A name \in SessionNames, stamped \in StampNames, spawnFails \in BOOLEAN,
             draws \in [1 .. NameAttempts -> WordNames] :
             (/\ OrphanRunning(name)
              /\ name \notin inFlightSessions
              /\ SubmitChorusStudy(<<"p">>, name, draws, stamped, spawnFails))
             => /\ reply'.status = "accepted"
                /\ reply'.sessionName = name
                /\ ~spawnFails
                   => Cardinality({d \in DOMAIN children' :
                                     /\ children'[d].sessionName = name
                                     /\ children'[d].state = "running"}) >= 2]_vars

\* after a restart, a process of the earlier gateway and a process of the
\* new one are running for the same session, which is registered once
C24_Witness ==
    \E c \in DOMAIN children, d \in DOMAIN children :
        /\ children[c].orphan
        /\ ~children[d].orphan
        /\ children[c].state = "running"
        /\ children[d].state = "running"
        /\ children[c].sessionName = children[d].sessionName
        /\ children[d].sessionName \in inFlightSessions

\* ------------------------------------------------------------------ C22
RECURSIVE SumOfCalls(_)
SumOfCalls(calls) ==
    IF calls = << >> THEN 0 ELSE calls[1] + SumOfCalls(Tail(calls))

\* the loop has returned (not the mock, which makes no model call)
LoopReturned == toolLoop.pc = "returned" /\ toolLoop.responseText # MockText

ToolLoopBounded ==
    /\ Len(toolLoop.calls) <= MAX_TOOL_ITERATIONS
    /\ toolLoop.pc = "calling" => Len(toolLoop.calls) < MAX_TOOL_ITERATIONS
    /\ toolLoop.stopReason \notin {"", "tool_use"} =>
           LoopReturned /\ toolLoop.responseText = FinalText
    /\ LoopReturned =>
           /\ toolLoop.totalCost = SumOfCalls(toolLoop.calls)
           /\ IF toolLoop.stopReason # "tool_use"
              THEN toolLoop.responseText = FinalText
              ELSE /\ toolLoop.responseText = MaxIterationsText
                   /\ Len(toolLoop.calls) = MAX_TOOL_ITERATIONS

\* C22: the tool-use loop of a participant ends: it makes at most
\* MAX_TOOL_ITERATIONS (10) model calls, returns the final text at the first
\* response whose stop reason is not tool_use and the max-iterations finding
\* after the tenth tool request, and the cost it returns is the sum of the
\* usage of every model call it made.
C22_ToolLoopTerminates ==
    /\ []ToolLoopBounded
    /\ <>(toolLoop.pc \in {"returned", "threw"})

\* ten responses asked for a tool: the finding is returned with the cost of all ten
C22_Witness ==
    /\ LoopReturned
    /\ toolLoop.responseText = MaxIterationsText
    /\ Len(toolLoop.calls) = MAX_TOOL_ITERATIONS
    /\ toolLoop.totalCost = SumOfCalls(toolLoop.calls)
    /\ toolLoop.totalCost = 15

====
